---- MODULE Spec2Model ----
(***************************************************************************)
(* Chunking, query, inspection and upload pipeline of the PDF RAG service. *)
(*   chunk_text,                                                           *)
(*   extract_text_from_document   src/app/pdf_utils.py                     *)
(*   save_file_metadata           src/app/database.py                      *)
(*   query_document, upload_pdf,                                           *)
(*   inspect_stored_vectors       src/app/main.py                          *)
(*   retrieve_context,                                                     *)
(*   calculate_cosine_similarity  src/app/rag.py                           *)
(*   search_similar, insert_chunks,                                        *)
(*   inspect_vectors              src/app/milvus_client.py                 *)
(* Texts are sequences of one-character strings, indexed from 1 in the     *)
(* model and from 0 in the code; cursor values keep the code's 0-based     *)
(* numbering.                                                              *)
(***************************************************************************)
EXTENDS Integers, Sequences, FiniteSets, TLC

\* ------------------------------------------------------------------ bounds
MaxLen == 4
MaxChunkSize == 4
MaxOverlap == 4
MaxMidLen == 5
MaxMidChunkSize == 4
MaxWideLen == 7
MaxWideChunkSize == 6
\* iterations explored beyond len(text); a run that returns makes at most
\* len(text) iterations (IterationsWithinCap)
MaxExtraIter == 1

\* characters the enumerated texts are drawn from
Chars == {"a", ".", "!", " ", "\n"}
MidChars == {"a", ".", "!", " "}
WideChars == {"a", ".", " "}

\* ------------------------------------------------------------ chunker state
VARIABLES text, chunk_size, overlap, start, end, chunks, spans, pc

cvars == <<text, chunk_size, overlap, start, end, chunks, spans, pc>>

\* -------------------------------------------------------- query-request state
VARIABLES file_id, query, show_similarity, show_query_embedding,
          connected, milvus_up, query_emb, query_vec, results,
          context_chunks, embed_calls, retrieve_embed_calls, search_calls,
          completion_calls, status, qpc

\* what the request raised, the filter expression handed to
\* collection.search, and the calls made on the vector store connection
VARIABLES raised, search_expr, probe_calls, connect_calls

\* the inspection request's flag and the collection.query calls it made
VARIABLES show_vectors, query_calls

\* retrieve_context: the similarity records of the hits
VARIABLES similarity_info

qvars == <<file_id, query, show_similarity, show_query_embedding,
           connected, milvus_up, query_emb, query_vec, results,
           context_chunks, embed_calls, retrieve_embed_calls, search_calls,
           completion_calls, status, qpc,
           raised, search_expr, probe_calls, connect_calls,
           show_vectors, query_calls, similarity_info>>

\* upload requests: the step each is at, its chunks and vectors, its
\* response; the rows of the collection, the calls of collection.insert and
\* the identifiers in the metadata table
VARIABLES upc, u_chunks, u_embeddings, u_status, u_raised, store,
          insert_calls, files

\* what the last extraction step of each upload request yielded
VARIABLES u_extracted

uvars == <<upc, u_chunks, u_embeddings, u_status, u_raised, store,
           insert_calls, files, u_extracted>>

\* calculate_cosine_similarity: its arguments, its result, whether it
\* divided, its position
VARIABLES vec1, vec2, cos, divided, spc

svars == <<vec1, vec2, cos, divided, spc>>

vars == <<cvars, qvars, uvars, svars>>

\* --------------------------------------------------------- string helpers
Whitespace == {" ", "\n", "\t", "\r"}

None == "None"

Min(S) == CHOOSE x \in S : \A y \in S : x <= y
Max(S) == CHOOSE x \in S : \A y \in S : x >= y

\* Python slice index normalisation: a negative index counts from the end,
\* and the result is clamped into 0..n
SliceIdx(i, n) ==
  IF i < 0 THEN (IF i + n < 0 THEN 0 ELSE i + n)
           ELSE (IF i > n THEN n ELSE i)

\* variant of Slice: a negative start is clamped to 0, text[max(i, 0):j]
Slice_ClampNegative(t, i, j) ==
  LET a == IF i < 0 THEN 0 ELSE SliceIdx(i, Len(t))
      b == SliceIdx(j, Len(t))
  IN IF a >= b THEN <<>> ELSE SubSeq(t, a + 1, b)

\* text[i:j]
Slice(t, i, j) ==
  LET a == SliceIdx(i, Len(t))
      b == SliceIdx(j, Len(t))
  IN IF a >= b THEN <<>> ELSE SubSeq(t, a + 1, b)

\* str.rfind(p, i, j): highest 0-based index k with i' <= k, k + len(p) <= j'
\* and text[k:k+len(p)] = p; -1 when there is none
RFind(t, p, i, j) ==
  LET a == SliceIdx(i, Len(t))
      b == SliceIdx(j, Len(t))
      hits == {k \in a..(b - Len(p)) : SubSeq(t, k + 1, k + Len(p)) = p}
  IN IF hits = {} THEN -1 ELSE Max(hits)

\* variant of Strip: str.rstrip()
Strip_RightOnly(s) ==
  LET keep == {i \in 1..Len(s) : s[i] \notin Whitespace}
  IN IF keep = {} THEN <<>> ELSE SubSeq(s, 1, Max(keep))

\* str.strip()
Strip(s) ==
  LET keep == {i \in 1..Len(s) : s[i] \notin Whitespace}
  IN IF keep = {} THEN <<>> ELSE SubSeq(s, Min(keep), Max(keep))

\* the sentence endings, in the order the loop tries them
Puncts == << <<".", " ">>, <<".", "\n">>, <<"!", " ">>,
             <<"!", "\n">>, <<"?", " ">>, <<"?", "\n">> >>

\* the for/break over Puncts: the rfind result of the first pattern that
\* occurs in text[s:e], -1 when none occurs
LastPunct(t, s, e) ==
  LET found == {n \in 1..Len(Puncts) : RFind(t, Puncts[n], s, e) # -1}
  IN IF found = {} THEN -1 ELSE RFind(t, Puncts[Min(found)], s, e)

\* variant of WindowEnd: the tentative end is one character too far
WindowEnd_Wider(t, s, cs) ==
  LET e == s + cs + 1
      last_punct == IF e < Len(t) THEN LastPunct(t, s, e) ELSE -1
  IN IF last_punct # -1 THEN last_punct + 1 ELSE e

\* end of the window that begins at s
WindowEnd(t, s, cs) ==
  LET e == s + cs
      last_punct == IF e < Len(t) THEN LastPunct(t, s, e) ELSE -1
  IN IF last_punct # -1 THEN last_punct + 1 ELSE e

\* variant of IsBlank: "if not text" without the strip
IsBlank_EmptyOnly(t) == t = <<>>

\* the guard of the early return
IsBlank(t) == Strip(t) = <<>>

\* chunk = text[start:end].strip()
Chunk(t, s, e) == Strip(Slice(t, s, e))

\* variant of NextStart: steps back one character more than the overlap
NextStart_DeeperOverlap(e, ov) == e - ov - 1

\* start = end - overlap
NextStart(e, ov) == e - ov

\* ---------------------------------------------------------- chunker steps
\* entry of chunk_text: the empty-text return, else chunks = [], start = 0
Enter ==
  /\ pc = "call"
  /\ IF IsBlank(text) THEN pc' = "done" ELSE pc' = "loop"
  /\ UNCHANGED <<text, chunk_size, overlap, start, end, chunks, spans>>
  /\ UNCHANGED <<qvars, uvars, svars>>

\* one iteration of the while loop
Iterate ==
  /\ pc = "loop"
  /\ Len(spans) < Len(text) + MaxExtraIter
  /\ LET e == WindowEnd(text, start, chunk_size)
         chunk == Chunk(text, start, e)
         s2 == NextStart(e, overlap)
     IN /\ end' = e
        /\ chunks' = IF chunk # <<>> THEN Append(chunks, chunk) ELSE chunks
        /\ spans' = Append(spans, [s |-> start, e |-> e, kept |-> chunk # <<>>])
        /\ start' = s2
        /\ pc' = IF s2 >= Len(text) THEN "done" ELSE "loop"
  /\ UNCHANGED <<text, chunk_size, overlap>>
  /\ UNCHANGED <<qvars, uvars, svars>>

\* ------------------------------------------------------------------ inputs
RECURSIVE Texts(_, _)
Texts(A, n) ==
  IF n = 0 THEN {<<>>}
  ELSE LET shorter == Texts(A, n - 1)
       IN shorter \cup {Append(t, c) : t \in {u \in shorter : Len(u) = n - 1}, c \in A}

Scenario ==
  << "S","e","n","t","e","n","c","e"," ","o","n","e","."," ",
     "S","e","n","t","e","n","c","e"," ","t","w","o","."," ",
     "S","e","n","t","e","n","c","e"," ","t","h","r","e","e","." >>

IsScenario == text = Scenario /\ chunk_size = 20 /\ overlap = 5

ValidParams == chunk_size > 0 /\ 0 <= overlap /\ overlap < chunk_size

\* no query request in progress
QIdle ==
  /\ file_id = <<>>
  /\ query = <<>>
  /\ show_similarity = FALSE
  /\ show_query_embedding = FALSE
  /\ connected = FALSE
  /\ milvus_up = FALSE
  /\ query_emb = None
  /\ query_vec = None
  /\ results = <<>>
  /\ context_chunks = <<>>
  /\ embed_calls = 0
  /\ retrieve_embed_calls = 0
  /\ search_calls = 0
  /\ completion_calls = 0
  /\ status = 0
  /\ qpc = "idle"
  /\ raised = "none"
  /\ search_expr = None
  /\ probe_calls = 0
  /\ connect_calls = 0
  /\ show_vectors = FALSE
  /\ query_calls = 0
  /\ similarity_info = <<>>

\* two upload requests in progress at the same time
Uploads == {1, 2}

\* no upload request in progress
UIdle ==
  /\ upc = [p \in Uploads |-> "idle"]
  /\ u_chunks = [p \in Uploads |-> <<>>]
  /\ u_embeddings = [p \in Uploads |-> <<>>]
  /\ u_status = [p \in Uploads |-> 0]
  /\ u_raised = [p \in Uploads |-> "none"]
  /\ store = <<>>
  /\ insert_calls = 0
  /\ files = {}
  /\ u_extracted = [p \in Uploads |-> "none"]

\* no result of calculate_cosine_similarity yet
NoResult == [kind |-> "none", sign |-> 0, m |-> 0, e |-> 0]

\* calculate_cosine_similarity is not running
SIdle ==
  /\ vec1 = <<>>
  /\ vec2 = <<>>
  /\ cos = NoResult
  /\ divided = FALSE
  /\ spc = "idle"

InitCall ==
  /\ start = 0
  /\ end = 0
  /\ chunks = <<>>
  /\ spans = <<>>
  /\ pc = "call"

Init ==
  /\ UIdle
  /\ SIdle
  /\ QIdle
  /\ \/ /\ text \in Texts(Chars, MaxLen)
        /\ chunk_size \in 1..MaxChunkSize
        /\ overlap \in 0..MaxOverlap
     \/ /\ text = Scenario
        /\ chunk_size = 20
        /\ overlap = 5
  /\ InitCall

\* texts of middle length with two kinds of sentence ending, valid
\* parameters only
InitMid ==
  /\ UIdle
  /\ SIdle
  /\ text \in Texts(MidChars, MaxMidLen)
  /\ chunk_size \in 1..MaxMidChunkSize
  /\ overlap \in 0..(chunk_size - 1)
  /\ InitCall
  /\ QIdle

\* longer texts over fewer characters, valid parameters only
InitWide ==
  /\ UIdle
  /\ SIdle
  /\ text \in Texts(WideChars, MaxWideLen)
  /\ chunk_size \in 1..MaxWideChunkSize
  /\ overlap \in 0..(chunk_size - 1)
  /\ InitCall
  /\ QIdle

\* ------------------------------------------- floating-point cosine
MaxDim == 2
MaxComp == 2
\* bits of the significand of the floating-point numbers (53 in the
\* program); every operation rounds to the nearest, ties to even
FloatBits == 6

Vectors == UNION {[1..n -> (-MaxComp)..MaxComp] : n \in 0..MaxDim}

RECURSIVE Pow2(_)
Pow2(k) == IF k = 0 THEN 1 ELSE 2 * Pow2(k - 1)

Abs(x) == IF x < 0 THEN -x ELSE x

RECURSIVE DotUpTo(_, _, _)
DotUpTo(v1, v2, n) ==
  IF n = 0 THEN 0 ELSE v1[n] * v2[n] + DotUpTo(v1, v2, n - 1)

\* np.dot of two one-dimensional arrays of one length
Dot(v1, v2) == DotUpTo(v1, v2, Len(v1))

\* np.dot refuses one-dimensional arrays of different lengths
DotRaises(v1, v2) == Len(v1) # Len(v2)

\* the pair num/den scaled by powers of two until the quotient has
\* FloatBits bits, with the exponent that undoes the scaling
RECURSIVE Normalize(_, _, _)
Normalize(num, den, e) ==
  IF num < den * Pow2(FloatBits - 1) THEN Normalize(2 * num, den, e - 1)
  ELSE IF num >= den * Pow2(FloatBits) THEN Normalize(num, 2 * den, e + 1)
  ELSE <<num, den, e>>

\* the floating-point number <<m, e>>, of value m * 2^e, nearest to the
\* positive quotient num/den
RoundPos(num, den) ==
  LET t == Normalize(num, den, 0)
      m0 == t[1] \div t[2]
      r == t[1] % t[2]
      m1 == IF 2 * r > t[2] \/ (2 * r = t[2] /\ m0 % 2 = 1) THEN m0 + 1 ELSE m0
  IN  IF m1 = Pow2(FloatBits) THEN <<Pow2(FloatBits - 1), t[3] + 1>>
      ELSE <<m1, t[3]>>

\* n scaled by powers of four until its square root has FloatBits bits
RECURSIVE SqrtScale(_, _)
SqrtScale(n, k) ==
  IF n < Pow2(2 * FloatBits - 2) THEN SqrtScale(4 * n, k + 1) ELSE <<n, k>>

\* np.linalg.norm: the rounded square root of dot(v, v), here of a positive
\* integer below 4^(FloatBits - 1)
FSqrt(n) ==
  LET t == SqrtScale(n, 0)
      s == CHOOSE x \in 0..Pow2(FloatBits) :
             x * x <= t[1] /\ t[1] < (x + 1) * (x + 1)
      m == IF t[1] > s * s + s THEN s + 1 ELSE s
  IN  IF m = Pow2(FloatBits) THEN <<Pow2(FloatBits - 1), 1 - t[2]>>
      ELSE <<m, -t[2]>>

\* magnitude1 * magnitude2
FMul(a, b) ==
  LET r == RoundPos(a[1] * b[1], 1)
  IN  <<r[1], r[2] + a[2] + b[2]>>

\* dot_product / (magnitude1 * magnitude2), for a positive integer d
FDiv(d, b) ==
  IF b[2] < 0 THEN RoundPos(d * Pow2(-b[2]), b[1])
  ELSE RoundPos(d, b[1] * Pow2(b[2]))

\* results: an exception, or the number sign * m * 2^e
Raised == [kind |-> "raise", sign |-> 0, m |-> 0, e |-> 0]
Zero == [kind |-> "value", sign |-> 0, m |-> 0, e |-> 0]

\* what a division by zero leaves: nan or an infinity
NotANumber == [kind |-> "nan", sign |-> 0, m |-> 0, e |-> 0]

\* dot_product / (magnitude1 * magnitude2), for two vectors of positive
\* magnitude
Quotient(v1, v2) ==
  LET d == Dot(v1, v2)
  IN  IF d = 0 THEN Zero
      ELSE LET q == FDiv(Abs(d), FMul(FSqrt(Dot(v1, v1)), FSqrt(Dot(v2, v2))))
           IN  [kind |-> "value", sign |-> IF d > 0 THEN 1 ELSE -1,
                m |-> q[1], e |-> q[2]]

\* a magnitude is zero exactly when the sum of the squares is
ZeroMagnitude(v) == Dot(v, v) = 0

\* variant of CosineValue: the magnitudes are not compared with zero
CosineValue_NoZeroGuard(v1, v2) ==
  IF ZeroMagnitude(v1) \/ ZeroMagnitude(v2) THEN NotANumber
  ELSE Quotient(v1, v2)

\* calculate_cosine_similarity once np.dot has accepted the vectors
CosineValue(v1, v2) ==
  IF ZeroMagnitude(v1) \/ ZeroMagnitude(v2) THEN Zero
  ELSE Quotient(v1, v2)

\* the call reaches the division: np.dot has not raised and no magnitude
\* is zero
Divides(v1, v2) ==
  ~DotRaises(v1, v2) /\ ~ZeroMagnitude(v1) /\ ~ZeroMagnitude(v2)

\* variant of CalculateCosineSimilarity: the longer vector is cut to the
\* length of the shorter
CalculateCosineSimilarity_Truncating(v1, v2) ==
  LET n == Min({Len(v1), Len(v2)})
  IN  CosineValue(SubSeq(v1, 1, n), SubSeq(v2, 1, n))

CalculateCosineSimilarity(v1, v2) ==
  IF DotRaises(v1, v2) THEN Raised ELSE CosineValue(v1, v2)

\* ------------------------------------------------------- query request
MaxHits == 2

FileIds ==
  {<<>>, <<" ">>, <<"f">>, <<"f", "'">>, <<"f", "\"">>, <<"f", "\\">>,
   <<"f", "\n", "g">>}
Queries == {<<>>, <<" ">>, <<"q">>}
\* vectors of the one dimension the collection is created with
QueryVectors == {<<1, 0>>, <<2, 2>>}

\* the "embedding" field of a hit; <<>> when the hit carries none
HitEmbeddings == {<<>>, <<2, 2>>}

\* what collection.search can return: at most MaxHits hits, closest first;
\* the embedding is an output field only when include_embeddings is set
Hits ==
  [chunk_text : {"c1", "c2"}, distance : {0, 3}, embedding : HitEmbeddings]
HitLists(include_embeddings) ==
  {h \in UNION {[1..n -> Hits] : n \in 0..MaxHits} :
     /\ \A i \in 1..(Len(h) - 1) : h[i].distance <= h[i + 1].distance
     /\ include_embeddings \/ \A i \in 1..Len(h) : h[i].embedding = <<>>}

\* how query_document reports an exception that escapes retrieve_context:
\* by substring of the message or by the name of the exception type
StatusOf(kind) ==
  IF kind = "pattern" THEN 400
  ELSE IF kind = "no_connection" THEN 503
  ELSE 500

Raise(kind) ==
  /\ status' = StatusOf(kind)
  /\ raised' = kind
  /\ qpc' = "done"

\* ensure_connection succeeds when list_collections works or connect_milvus
\* manages to reconnect
EnsureConnectionOk == connected \/ milvus_up

\* ensure_connection: one list_collections probe, and one connect_milvus
\* when the probe fails
EnsureConnection ==
  /\ probe_calls' = probe_calls + 1
  /\ connect_calls' = IF connected THEN connect_calls ELSE connect_calls + 1
  /\ connected' = EnsureConnectionOk

\* str.replace of one character by a string
RECURSIVE Replace(_, _, _)
Replace(s, c, r) ==
  IF s = <<>> THEN <<>>
  ELSE (IF Head(s) = c THEN r ELSE <<Head(s)>>) \o Replace(Tail(s), c, r)

\* search_similar: the quotes of the identifier are escaped, nothing else is
Escape(id) == Replace(Replace(id, "'", <<"\\", "'">>), "\"", <<"\\", "\"">>)

FilterPrefix == <<"f", "i", "l", "e", "_", "i", "d", " ", "=", "=", " ">>

\* search_similar: expr = f"file_id == '{escaped}'" over the trimmed id
FilterExpr(id) == FilterPrefix \o <<"'">> \o Escape(Strip(id)) \o <<"'">>

\* the request as received; no step changes it
request == <<file_id, query, show_similarity, show_query_embedding,
             show_vectors, milvus_up>>

\* query_document: validation of the request
QValidate ==
  /\ qpc = "q_start"
  /\ IF file_id = <<>> \/ Strip(file_id) = <<>> \/ query = <<>> \/ Strip(query) = <<>>
       THEN status' = 400 /\ raised' = "validation" /\ qpc' = "done"
       ELSE status' = status /\ raised' = raised /\ qpc' = "q_embed"
  /\ UNCHANGED <<request, connected, query_emb, query_vec, results,
                 context_chunks, similarity_info, embed_calls, retrieve_embed_calls,
                 search_calls, completion_calls, search_expr, probe_calls,
                 connect_calls, query_calls>>
  /\ UNCHANGED <<cvars, uvars, svars>>

\* query_document: the optional query embedding for inspection
QShowEmbedding ==
  /\ qpc = "q_embed"
  /\ IF show_query_embedding
       THEN /\ embed_calls' = embed_calls + 1
            /\ \/ /\ query_emb' \in QueryVectors
                  /\ qpc' = "r_collection"
                  /\ UNCHANGED <<status, raised>>
               \/ /\ query_emb' = query_emb
                  /\ qpc' = "done"
                  /\ status' = 500
                  /\ raised' = "embedding"
       ELSE /\ embed_calls' = embed_calls
            /\ query_emb' = None
            /\ qpc' = "r_collection"
            /\ UNCHANGED <<status, raised>>
  /\ UNCHANGED <<request, connected, query_vec, results, context_chunks, similarity_info,
                 retrieve_embed_calls, search_calls, completion_calls,
                 search_expr, probe_calls, connect_calls, query_calls>>
  /\ UNCHANGED <<cvars, uvars, svars>>

\* retrieve_context: get_or_create_collection
RGetCollection ==
  /\ qpc = "r_collection"
  /\ EnsureConnection
  /\ IF ~EnsureConnectionOk
       THEN Raise("reconnect_failed")
       ELSE \/ /\ qpc' = "r_embed"
               /\ UNCHANGED <<status, raised>>
            \/ \E kind \in {"no_connection", "other"} : Raise(kind)
  /\ UNCHANGED <<request, query_emb, query_vec, results, context_chunks, similarity_info,
                 embed_calls, retrieve_embed_calls, search_calls,
                 completion_calls, search_expr, query_calls>>
  /\ UNCHANGED <<cvars, uvars, svars>>

\* variant of RQueryVector: the precomputed vector is ignored
RQueryVector_NoReuse ==
  /\ qpc = "r_embed"
  /\ embed_calls' = embed_calls + 1
  /\ retrieve_embed_calls' = retrieve_embed_calls + 1
  /\ \/ /\ query_vec' \in QueryVectors
        /\ qpc' = "r_search"
        /\ UNCHANGED <<status, raised>>
     \/ /\ query_vec' = query_vec
        /\ Raise("embedding")
  /\ UNCHANGED <<request, connected, query_emb, results, context_chunks, similarity_info,
                 search_calls, completion_calls, search_expr, probe_calls,
                 connect_calls, query_calls>>
  /\ UNCHANGED <<cvars, uvars, svars>>

\* retrieve_context: the query vector, the precomputed one when supplied
RQueryVector ==
  /\ qpc = "r_embed"
  /\ IF query_emb # None
       THEN /\ query_vec' = query_emb
            /\ qpc' = "r_search"
            /\ UNCHANGED <<status, raised, embed_calls, retrieve_embed_calls>>
       ELSE /\ embed_calls' = embed_calls + 1
            /\ retrieve_embed_calls' = retrieve_embed_calls + 1
            /\ \/ /\ query_vec' \in QueryVectors
                  /\ qpc' = "r_search"
                  /\ UNCHANGED <<status, raised>>
               \/ /\ query_vec' = query_vec
                  /\ Raise("embedding")
  /\ UNCHANGED <<request, connected, query_emb, results, context_chunks, similarity_info,
                 search_calls, completion_calls, search_expr, probe_calls,
                 connect_calls, query_calls>>
  /\ UNCHANGED <<cvars, uvars, svars>>

\* retrieve_context: search_similar
RSearch ==
  /\ qpc = "r_search"
  /\ EnsureConnection
  /\ IF ~EnsureConnectionOk
       THEN /\ Raise("reconnect_failed")
            /\ UNCHANGED <<results, search_calls, search_expr>>
       ELSE IF file_id = <<>> \/ Strip(file_id) = <<>>
              THEN /\ Raise("value_error")
                   /\ UNCHANGED <<results, search_calls, search_expr>>
              ELSE /\ search_expr' = FilterExpr(file_id)
                   /\ search_calls' = search_calls + 1
                   /\ \/ /\ results' \in HitLists(show_similarity)
                         /\ qpc' = "r_process"
                         /\ UNCHANGED <<status, raised>>
                      \/ /\ results' = results
                         /\ \E kind \in {"pattern", "no_connection", "other"} :
                              Raise(kind)
  /\ UNCHANGED <<request, query_emb, query_vec, context_chunks, similarity_info,
                 embed_calls, retrieve_embed_calls, completion_calls,
                 query_calls>>
  /\ UNCHANGED <<cvars, uvars, svars>>

\* variant of ChunkTexts: the hits are read from the last to the first
ChunkTexts_Reversed(hits) ==
  [i \in 1..Len(hits) |-> hits[Len(hits) + 1 - i].chunk_text]

\* retrieve_context: the loop over the hits appends each chunk_text
ChunkTexts(hits) == [i \in 1..Len(hits) |-> hits[i].chunk_text]

\* 1 - (distance ** 2) / 2, clamped to [-1, 1], for an integer distance
FallbackCosine(distance) ==
  LET n == 2 - distance * distance
      c == Max({-2, Min({2, n})})
  IN  IF c = 0 THEN Zero
      ELSE LET q == RoundPos(Abs(c), 2)
           IN  [kind |-> "value", sign |-> IF c > 0 THEN 1 ELSE -1,
                m |-> q[1], e |-> q[2]]

\* retrieve_context: the record appended for one hit; the exact cosine when
\* the hit carries an embedding, the approximation otherwise
SimilarityRecord(hit, query_embedding) ==
  [chunk_text |-> hit.chunk_text,
   l2_distance |-> hit.distance,
   cosine_similarity |->
     IF hit.embedding # <<>>
       THEN CalculateCosineSimilarity(query_embedding, hit.embedding)
       ELSE FallbackCosine(hit.distance)]

\* retrieve_context: one record per hit when return_similarities is set
SimilarityInfo(hits, query_embedding, return_similarities) ==
  IF return_similarities
    THEN [i \in 1..Len(hits) |-> SimilarityRecord(hits[i], query_embedding)]
    ELSE <<>>

\* retrieve_context: the chunk texts of the hits, in the order of the hits,
\* and their similarity records
RProcess ==
  /\ qpc = "r_process"
  /\ context_chunks' = ChunkTexts(results)
  /\ similarity_info' = SimilarityInfo(results, query_vec, show_similarity)
  /\ qpc' = "q_answer"
  /\ UNCHANGED <<request, connected, query_emb, query_vec, results,
                 embed_calls, retrieve_embed_calls, search_calls,
                 completion_calls, status, raised, search_expr, probe_calls,
                 connect_calls, query_calls>>
  /\ UNCHANGED <<cvars, uvars, svars>>

\* variant of QAnswer: generate_answer is called whatever was retrieved
QAnswer_NoShortCircuit ==
  /\ qpc = "q_answer"
  /\ completion_calls' = completion_calls + 1
  /\ \/ status' = 200 /\ raised' = raised
     \/ status' = 500 /\ raised' = "completion"
  /\ qpc' = "done"
  /\ UNCHANGED <<request, connected, query_emb, query_vec, results,
                 context_chunks, similarity_info, embed_calls, retrieve_embed_calls,
                 search_calls, search_expr, probe_calls, connect_calls,
                 query_calls>>
  /\ UNCHANGED <<cvars, uvars, svars>>

\* query_document: not found on an empty retrieval, else generate_answer
QAnswer ==
  /\ qpc = "q_answer"
  /\ IF context_chunks = <<>>
       THEN /\ status' = 404
            /\ raised' = "not_found"
            /\ completion_calls' = completion_calls
       ELSE /\ completion_calls' = completion_calls + 1
            /\ \/ status' = 200 /\ raised' = raised
               \/ status' = 500 /\ raised' = "completion"
  /\ qpc' = "done"
  /\ UNCHANGED <<request, connected, query_emb, query_vec, results,
                 context_chunks, similarity_info, embed_calls, retrieve_embed_calls,
                 search_calls, search_expr, probe_calls, connect_calls,
                 query_calls>>
  /\ UNCHANGED <<cvars, uvars, svars>>

\* the chunker is not running
CIdle ==
  /\ text = <<>>
  /\ chunk_size = 1
  /\ overlap = 0
  /\ start = 0
  /\ end = 0
  /\ chunks = <<>>
  /\ spans = <<>>
  /\ pc = "idle"

\* nothing has been computed or called yet
QFresh ==
  /\ query_vec = None
  /\ results = <<>>
  /\ context_chunks = <<>>
  /\ embed_calls = 0
  /\ retrieve_embed_calls = 0
  /\ search_calls = 0
  /\ completion_calls = 0
  /\ status = 0
  /\ raised = "none"
  /\ search_expr = None
  /\ probe_calls = 0
  /\ connect_calls = 0
  /\ query_calls = 0
  /\ similarity_info = <<>>

InitQuery ==
  /\ CIdle
  /\ UIdle
  /\ SIdle
  /\ file_id \in FileIds
  /\ query \in Queries
  /\ show_similarity \in BOOLEAN
  /\ show_query_embedding \in BOOLEAN
  /\ show_vectors = FALSE
  /\ connected \in BOOLEAN
  /\ milvus_up \in BOOLEAN
  /\ query_emb = None
  /\ QFresh
  /\ qpc = "q_start"

NextQuery ==
  \/ QValidate
  \/ QShowEmbedding
  \/ RGetCollection
  \/ RQueryVector
  \/ RSearch
  \/ RProcess
  \/ QAnswer

QuerySpec == InitQuery /\ [][NextQuery]_vars

\* --------------------------------------------- retrieve_context, called
\* directly with any arguments, the optional precomputed vector included
InitRetrieve ==
  /\ CIdle
  /\ UIdle
  /\ SIdle
  /\ file_id \in FileIds
  /\ query \in Queries
  /\ show_similarity \in BOOLEAN
  /\ show_query_embedding = FALSE
  /\ show_vectors = FALSE
  /\ connected \in BOOLEAN
  /\ milvus_up \in BOOLEAN
  /\ \/ query_emb = None
     \/ query_emb \in QueryVectors
  /\ QFresh
  /\ qpc = "r_collection"

NextRetrieve ==
  \/ RGetCollection
  \/ RQueryVector
  \/ RSearch
  \/ RProcess

RetrieveSpec == InitRetrieve /\ [][NextRetrieve]_vars

\* ------------------------------------------------- inspection request
\* inspect_vectors without a filter: the expressions tried one after the
\* other, each after the failure of the one before
QueryFallbacks == <<"id > -1", "", "id >= 0">>

\* every exception of the inspection request is reported as 500
IFail(kind) ==
  /\ status' = 500
  /\ raised' = kind
  /\ qpc' = "done"

\* inspect_stored_vectors: get_or_create_collection
IGetCollection ==
  /\ qpc = "i_collection"
  /\ EnsureConnection
  /\ IF ~EnsureConnectionOk
       THEN IFail("reconnect_failed")
       ELSE \/ /\ qpc' = "i_inspect"
               /\ UNCHANGED <<status, raised>>
            \/ \E kind \in {"no_connection", "other"} : IFail(kind)
  /\ UNCHANGED <<request, query_emb, query_vec, results, context_chunks, similarity_info,
                 embed_calls, retrieve_embed_calls, search_calls,
                 completion_calls, search_expr, query_calls>>
  /\ UNCHANGED <<cvars, uvars, svars>>

\* inspect_vectors: one search when the vectors are wanted, one query with
\* a filter, or the chain of unfiltered queries
IInspect ==
  /\ qpc = "i_inspect"
  /\ EnsureConnection
  /\ IF ~EnsureConnectionOk
       THEN /\ IFail("reconnect_failed")
            /\ UNCHANGED <<search_calls, search_expr, query_calls>>
       ELSE IF show_vectors
         THEN /\ search_calls' = search_calls + 1
              /\ search_expr' = IF file_id = <<>> \/ Strip(file_id) = <<>>
                                  THEN None
                                  ELSE FilterExpr(file_id)
              /\ query_calls' = query_calls
              /\ \/ status' = 200 /\ raised' = raised /\ qpc' = "done"
                 \/ IFail("other")
         ELSE IF ~(file_id = <<>> \/ Strip(file_id) = <<>>)
           THEN /\ query_calls' = query_calls + 1
                /\ UNCHANGED <<search_calls, search_expr>>
                /\ \/ status' = 200 /\ raised' = raised /\ qpc' = "done"
                   \/ IFail("other")
           ELSE /\ UNCHANGED <<search_calls, search_expr>>
                /\ \E k \in 1..Len(QueryFallbacks) :
                     /\ query_calls' = query_calls + k
                     /\ \/ status' = 200 /\ raised' = raised /\ qpc' = "done"
                        \/ k = Len(QueryFallbacks) /\ IFail("other")
  /\ UNCHANGED <<request, query_emb, query_vec, results, context_chunks, similarity_info,
                 embed_calls, retrieve_embed_calls, completion_calls>>
  /\ UNCHANGED <<cvars, uvars, svars>>

InitInspect ==
  /\ CIdle
  /\ UIdle
  /\ SIdle
  /\ file_id \in FileIds
  /\ query = <<>>
  /\ show_similarity = FALSE
  /\ show_query_embedding = FALSE
  /\ show_vectors \in BOOLEAN
  /\ connected \in BOOLEAN
  /\ milvus_up \in BOOLEAN
  /\ query_emb = None
  /\ QFresh
  /\ qpc = "i_collection"

NextInspect == IGetCollection \/ IInspect

\* one request of either kind
InitService == InitQuery \/ InitInspect

NextService == NextQuery \/ NextInspect

ServiceSpec == InitService /\ [][NextService]_vars

\* ----------------------------------------------------- upload requests
\* chunks per document
MaxChunks == 2

\* chunk_text is called with its defaults
DefaultChunkSize == 1000
\* limits of the collection schema, as insert_chunks applies them
MaxFileIdLen == 255
MaxChunkTextLen == 10000
ExpectedDim == 1536

\* upload_pdf: the generated identifier, different for each request
FileIdOf(p) == IF p = 1 THEN <<"f", "1">> ELSE <<"f", "2">>

\* a chunk is its text and the length of the text; two documents can hold
\* the same chunk
ChunkValues ==
  {[text |-> "x", len |-> 1], [text |-> "y", len |-> DefaultChunkSize]}
ChunkLists == UNION {[1..n -> ChunkValues] : n \in 0..MaxChunks}

\* generate_embeddings: one vector for each text, in the order of the texts
EmbeddingsOf(cs) ==
  [i \in 1..Len(cs) |-> [of |-> cs[i].text, dim |-> ExpectedDim]]

\* what the embedding service can answer: the vectors asked for, one vector
\* fewer, or a vector of another dimension
Responses(cs) ==
  {EmbeddingsOf(cs)}
    \cup {SubSeq(EmbeddingsOf(cs), 1, Len(cs) - 1)}
    \cup {[EmbeddingsOf(cs) EXCEPT ![i].dim = ExpectedDim - 1] : i \in 1..Len(cs)}

\* variant of InsertError: the dimensions of the vectors are not looked at
InsertError_NoDimCheck(fid, cs, es) ==
  IF fid = <<>> \/ Strip(fid) = <<>> THEN "file_id"
  ELSE IF Len(cs) = 0 THEN "chunks"
  ELSE IF Len(es) = 0 THEN "embeddings"
  ELSE IF Len(cs) # Len(es) THEN "length"
  ELSE IF Len(Strip(fid)) > MaxFileIdLen THEN "file_id_length"
  ELSE "none"

\* insert_chunks: the checks made before anything is sent, in their order
InsertError(fid, cs, es) ==
  IF fid = <<>> \/ Strip(fid) = <<>> THEN "file_id"
  ELSE IF Len(cs) = 0 THEN "chunks"
  ELSE IF Len(es) = 0 THEN "embeddings"
  ELSE IF Len(cs) # Len(es) THEN "length"
  ELSE IF Len(Strip(fid)) > MaxFileIdLen THEN "file_id_length"
  ELSE IF \E i \in 1..Len(es) : es[i].dim # ExpectedDim THEN "dimension"
  ELSE "none"

\* insert_chunks: chunks longer than the schema allows are cut, in the
\* caller's list
Truncate(cs) ==
  [i \in 1..Len(cs) |->
     IF cs[i].len > MaxChunkTextLen
       THEN [cs[i] EXCEPT !.len = MaxChunkTextLen]
       ELSE cs[i]]

\* variant of Rows: the vectors are taken from the end of the list
Rows_Shifted(fid, cs, es) ==
  [i \in 1..Len(cs) |->
     [file_id |-> Strip(fid), chunk_text |-> cs[i].text,
      length |-> cs[i].len, embedding |-> es[Len(cs) + 1 - i]]]

\* insert_chunks: entities = [file_ids, chunks, embeddings]; row i holds the
\* i-th element of each list
Rows(fid, cs, es) ==
  [i \in 1..Len(cs) |->
     [file_id |-> Strip(fid), chunk_text |-> cs[i].text,
      length |-> cs[i].len, embedding |-> es[i]]]

\* the request p ends with an error response
UFail(p, code, kind) ==
  /\ u_status' = [u_status EXCEPT ![p] = code]
  /\ u_raised' = [u_raised EXCEPT ![p] = kind]
  /\ upc' = [upc EXCEPT ![p] = "done"]

\* the request p moves on to its next step
UGoto(p, step) ==
  /\ upc' = [upc EXCEPT ![p] = step]
  /\ UNCHANGED <<u_status, u_raised>>

\* what the upload requests leave alone: the chunker and, but for the
\* connection, the query request
uframe == <<cvars, svars, request, query_emb, query_vec, results,
            context_chunks, similarity_info, embed_calls, retrieve_embed_calls,
            search_calls, completion_calls, status, qpc, raised,
            search_expr, query_calls>>

\* file types: the PDF, the other formats Docling converts, the images
Exts == {".pdf", ".docx", ".png"}

\* what a conversion or the pypdf fallback yields: text, nothing but
\* whitespace, or an exception
Extractions == {"text", "blank", "failed"}

\* extract_text_from_document: a PDF whose conversion fails or yields blank
\* text goes to the fallback, whose text is returned as it is; for the other
\* types blank text raises ValueError, which the except clause raises again
\* as a failure to extract
ExtractText(ext, conversion, fallback) ==
  IF conversion = "text" THEN [text |-> "text", raises |-> FALSE]
  ELSE IF ext = ".pdf"
         THEN [text |-> fallback, raises |-> fallback = "failed"]
         ELSE [text |-> conversion, raises |-> TRUE]

\* upload_pdf: extract_text_from_document and the check for blank text
UExtract(p) ==
  /\ upc[p] = "u_extract"
  /\ \E ext \in Exts, conversion \in Extractions, fallback \in Extractions :
       LET r == ExtractText(ext, conversion, fallback)
       IN  /\ u_extracted' = [u_extracted EXCEPT ![p] = r.text]
           /\ IF r.raises THEN UFail(p, 500, "extraction")
              ELSE IF r.text = "blank" THEN UFail(p, 400, "no_text")
              ELSE UGoto(p, "u_chunk")
  /\ UNCHANGED <<u_chunks, u_embeddings, store, insert_calls, files,
                 connected, probe_calls, connect_calls>>
  /\ UNCHANGED uframe

\* upload_pdf: chunk_text and the check for an empty list
UChunk(p) ==
  /\ upc[p] = "u_chunk"
  /\ \E cs \in ChunkLists :
       /\ u_chunks' = [u_chunks EXCEPT ![p] = cs]
       /\ IF cs = <<>>
            THEN UFail(p, 400, "no_chunks")
            ELSE UGoto(p, "u_embed")
  /\ UNCHANGED <<u_embeddings, store, insert_calls, files,
                 connected, probe_calls, connect_calls>>
  /\ UNCHANGED <<uframe, u_extracted>>

\* upload_pdf: generate_embeddings
UEmbed(p) ==
  /\ upc[p] = "u_embed"
  /\ \/ \E es \in Responses(u_chunks[p]) :
          /\ u_embeddings' = [u_embeddings EXCEPT ![p] = es]
          /\ UGoto(p, "u_collection")
     \/ /\ UFail(p, 500, "embedding")
        /\ UNCHANGED u_embeddings
  /\ UNCHANGED <<u_chunks, store, insert_calls, files,
                 connected, probe_calls, connect_calls>>
  /\ UNCHANGED <<uframe, u_extracted>>

\* upload_pdf: get_or_create_collection
UGetCollection(p) ==
  /\ upc[p] = "u_collection"
  /\ EnsureConnection
  /\ IF ~EnsureConnectionOk
       THEN UFail(p, 500, "reconnect_failed")
       ELSE \/ UGoto(p, "u_insert")
            \/ UFail(p, 503, "no_connection")
            \/ UFail(p, 500, "other")
  /\ UNCHANGED <<u_chunks, u_embeddings, store, insert_calls, files>>
  /\ UNCHANGED <<uframe, u_extracted>>

\* upload_pdf: insert_chunks, which checks its arguments, inserts the rows
\* and flushes
UInsert(p) ==
  /\ upc[p] = "u_insert"
  /\ LET err == InsertError(FileIdOf(p), u_chunks[p], u_embeddings[p])
         cut == Truncate(u_chunks[p])
     IN  IF err # "none"
           THEN /\ UFail(p, 400, "value_error")
                /\ u_chunks' = [u_chunks EXCEPT
                                  ![p] = IF err = "dimension" THEN cut ELSE @]
                /\ UNCHANGED <<store, insert_calls>>
           ELSE /\ u_chunks' = [u_chunks EXCEPT ![p] = cut]
                /\ insert_calls' = insert_calls + 1
                /\ \/ /\ store' = store \o Rows(FileIdOf(p), cut, u_embeddings[p])
                      /\ \/ UGoto(p, "u_save")
                         \/ UFail(p, 503, "no_connection")
                         \/ UFail(p, 500, "other")
                   \/ /\ store' = store
                      /\ \/ UFail(p, 503, "no_connection")
                         \/ UFail(p, 500, "other")
  /\ UNCHANGED <<u_embeddings, files, connected, probe_calls, connect_calls>>
  /\ UNCHANGED <<uframe, u_extracted>>

\* save_file_metadata: the row written for a request, with len(chunks)
MetadataRow(p) ==
  [file_id |-> FileIdOf(p), chunks_count |-> Len(u_chunks[p]),
   status |-> "completed"]

\* variant of USave: the metadata is also written by a request that has not
\* yet called insert_chunks
USave_BeforeInsert(p) ==
  /\ upc[p] \in {"u_insert", "u_save"}
  /\ \/ /\ files' = files \cup {MetadataRow(p)}
        /\ u_status' = [u_status EXCEPT ![p] = 200]
        /\ u_raised' = u_raised
        /\ upc' = [upc EXCEPT ![p] = "done"]
     \/ /\ files' = files
        /\ UFail(p, 500, "other")
  /\ UNCHANGED <<u_chunks, u_embeddings, store, insert_calls,
                 connected, probe_calls, connect_calls>>
  /\ UNCHANGED <<uframe, u_extracted>>

\* upload_pdf: save_file_metadata and the response
USave(p) ==
  /\ upc[p] = "u_save"
  /\ \/ /\ files' = files \cup {MetadataRow(p)}
        /\ u_status' = [u_status EXCEPT ![p] = 200]
        /\ u_raised' = u_raised
        /\ upc' = [upc EXCEPT ![p] = "done"]
     \/ /\ files' = files
        /\ UFail(p, 500, "other")
  /\ UNCHANGED <<u_chunks, u_embeddings, store, insert_calls,
                 connected, probe_calls, connect_calls>>
  /\ UNCHANGED <<uframe, u_extracted>>

InitUpload ==
  /\ CIdle
  /\ SIdle
  /\ file_id = <<>>
  /\ query = <<>>
  /\ show_similarity = FALSE
  /\ show_query_embedding = FALSE
  /\ show_vectors = FALSE
  /\ connected \in BOOLEAN
  /\ milvus_up \in BOOLEAN
  /\ query_emb = None
  /\ QFresh
  /\ qpc = "idle"
  /\ upc = [p \in Uploads |-> "u_extract"]
  /\ u_chunks = [p \in Uploads |-> <<>>]
  /\ u_embeddings = [p \in Uploads |-> <<>>]
  /\ u_status = [p \in Uploads |-> 0]
  /\ u_raised = [p \in Uploads |-> "none"]
  /\ store = <<>>
  /\ insert_calls = 0
  /\ files = {}
  /\ u_extracted = [p \in Uploads |-> "none"]

\* insert_chunks called by any caller: the chunk lists it can be handed,
\* with chunks longer than the schema allows
CallerChunkValues ==
  ChunkValues \cup {[text |-> "z", len |-> MaxChunkTextLen + 1]}
CallerChunkLists == UNION {[1..n -> CallerChunkValues] : n \in 0..MaxChunks}

InitInsert ==
  /\ CIdle
  /\ SIdle
  /\ file_id = <<>>
  /\ query = <<>>
  /\ show_similarity = FALSE
  /\ show_query_embedding = FALSE
  /\ show_vectors = FALSE
  /\ connected = TRUE
  /\ milvus_up = TRUE
  /\ query_emb = None
  /\ QFresh
  /\ qpc = "idle"
  /\ upc = [p \in Uploads |-> "u_insert"]
  /\ u_chunks \in [Uploads -> CallerChunkLists]
  /\ u_embeddings \in [Uploads -> UNION {Responses(cs) : cs \in CallerChunkLists}]
  /\ \A p \in Uploads : u_embeddings[p] \in Responses(u_chunks[p])
  /\ u_status = [p \in Uploads |-> 0]
  /\ u_raised = [p \in Uploads |-> "none"]
  /\ store = <<>>
  /\ insert_calls = 0
  /\ files = {}
  /\ u_extracted = [p \in Uploads |-> "none"]

NextInsert == \E p \in Uploads : UInsert(p)

InsertSpec == InitInsert /\ [][NextInsert]_vars

NextUpload ==
  \E p \in Uploads :
    \/ UExtract(p)
    \/ UChunk(p)
    \/ UEmbed(p)
    \/ UGetCollection(p)
    \/ UInsert(p)
    \/ USave(p)

UploadSpec == InitUpload /\ [][NextUpload]_vars

\* -------------------------------------------- calculate_cosine_similarity
\* one call of calculate_cosine_similarity
Cosine ==
  /\ spc = "call"
  /\ cos' = CalculateCosineSimilarity(vec1, vec2)
  /\ divided' = Divides(vec1, vec2)
  /\ spc' = "done"
  /\ UNCHANGED <<vec1, vec2>>
  /\ UNCHANGED <<cvars, qvars, uvars>>

InitCosine ==
  /\ CIdle
  /\ QIdle
  /\ UIdle
  /\ vec1 \in Vectors
  /\ vec2 \in Vectors
  /\ cos = NoResult
  /\ divided = FALSE
  /\ spc = "call"

CosineSpec == InitCosine /\ [][Cosine]_vars

Next == Enter \/ Iterate

Spec == Init /\ [][Next]_vars

MidSpec == InitMid /\ [][Next]_vars

WideSpec == InitWide /\ [][Next]_vars

\* a run that returns has made at most len(text) iterations, so the cap on
\* Iterate cuts only runs that never return
IterationsWithinCap == pc = "done" => Len(spans) <= Len(text)

\* ============================================================ properties
\* cursor values the loop head has already held
SeenStarts == {spans[k].s : k \in DOMAIN spans}

\* 0-based positions of the text that iteration k's text[start:end] denotes
SpanOf(k) ==
  {i \in 0..(Len(text) - 1) :
     /\ SliceIdx(spans[k].s, Len(text)) <= i
     /\ i < SliceIdx(spans[k].e, Len(text))}

\* iterations whose chunk was appended
Kept == {k \in DOMAIN spans : spans[k].kept}

AllWhitespace == \A i \in 1..Len(text) : text[i] \in Whitespace

\* C1: for chunk_size > 0 and 0 <= overlap < chunk_size chunk_text
\* terminates.  An iteration is a function of the cursor alone (text,
\* chunk_size and overlap never change), so a run whose cursor comes back to
\* a value it already held at the loop head repeats for ever; a terminating
\* run therefore never meets the loop head with a cursor value it has seen.
C1_Terminates ==
  (ValidParams /\ pc = "loop") => start \notin SeenStarts

\* C2: every iteration leaves the cursor at least one character further
\* than it found it, for all parameter values.
C2_MinAdvance == [][Iterate => start' >= start + 1]_vars

\* C3: on "Sentence one. Sentence two. Sentence three." with chunk_size 20
\* and overlap 5 the call returns (its cursor never repeats), every chunk
\* has at most 20 characters, every window that stops short of the text end
\* stops right after a "." that is followed by " ", and consecutive windows
\* share at most 5 characters.
C3_Scenario ==
  IsScenario =>
    /\ (pc = "loop" => start \notin SeenStarts)
    /\ \A i \in DOMAIN chunks : Len(chunks[i]) <= 20
    /\ \A k \in DOMAIN spans :
         spans[k].e < Len(text) =>
           text[spans[k].e] = "." /\ text[spans[k].e + 1] = " "
    /\ \A k \in 1..(Len(spans) - 1) :
         Cardinality(SpanOf(k) \cap SpanOf(k + 1)) <= 5

\* C4: when chunk_text returns under valid parameters, every non-whitespace
\* character position of the text lies in the window of some appended chunk.
C4_NoDataLoss ==
  (pc = "done" /\ ValidParams) =>
    \A i \in 0..(Len(text) - 1) :
      text[i + 1] \notin Whitespace => \E k \in Kept : i \in SpanOf(k)

C6_OverlapBound ==
  \A k \in 1..(Len(spans) - 1) :
    /\ spans[k + 1].s = spans[k].e - overlap
    /\ Cardinality(SpanOf(k) \cap SpanOf(k + 1)) <= overlap

C6_Witness ==
  /\ ValidParams
  /\ pc = "done"
  /\ overlap > 0
  /\ \E k \in 1..(Len(spans) - 1) :
       /\ Cardinality(SpanOf(k) \cap SpanOf(k + 1)) = overlap
       /\ spans[k].e < spans[k].s + chunk_size

\* C7: under valid parameters every chunk has at most chunk_size characters.
C7_ChunkLength ==
  ValidParams => \A i \in DOMAIN chunks : Len(chunks[i]) <= chunk_size

C7_Witness ==
  /\ ValidParams
  /\ pc = "done"
  /\ Len(text) > chunk_size
  /\ \E i \in DOMAIN chunks : Len(chunks[i]) = chunk_size
  /\ \E i \in DOMAIN chunks : Len(chunks[i]) < chunk_size

\* C8: every chunk is non-empty and neither begins nor ends with
\* whitespace, and exactly the windows that hold a non-whitespace character
\* contributed a chunk.
C8_Trimmed ==
  /\ \A i \in DOMAIN chunks :
       /\ chunks[i] # <<>>
       /\ chunks[i][1] \notin Whitespace
       /\ chunks[i][Len(chunks[i])] \notin Whitespace
  /\ Len(chunks) =
       Cardinality({k \in DOMAIN spans :
                      \E i \in SpanOf(k) : text[i + 1] \notin Whitespace})

C8_Witness ==
  /\ pc = "done"
  /\ \E k \in DOMAIN spans : ~spans[k].kept /\ SpanOf(k) # {}
  /\ \E k \in Kept :
       /\ text[SliceIdx(spans[k].s, Len(text)) + 1] \in Whitespace
       /\ text[SliceIdx(spans[k].e, Len(text))] \in Whitespace

\* C9: on an empty or all-whitespace text chunk_text returns the empty list
\* at once, whatever chunk_size and overlap are.
C9_BlankGivesEmpty ==
  (AllWhitespace /\ pc \notin {"call", "idle"}) =>
    pc = "done" /\ chunks = <<>> /\ spans = <<>>

C9_Witness ==
  /\ pc = "done"
  /\ AllWhitespace
  /\ Len(text) >= 2
  /\ overlap >= chunk_size

\* C10: a query request calls the embedding service at most once; when
\* retrieve_context is given a precomputed query vector it makes no
\* embedding call, and when it is given none it has made exactly one by the
\* time it searches, so that every request that reaches the search has made
\* exactly one embedding call.
C10_EmbedOnce ==
  /\ embed_calls <= 1
  /\ (query_emb # None => retrieve_embed_calls = 0)
  /\ (search_calls > 0 =>
        /\ embed_calls = 1
        /\ (query_emb = None => retrieve_embed_calls = 1))

C10_Witness ==
  /\ status = 200
  /\ show_query_embedding
  /\ query_emb # None
  /\ query_vec = query_emb
  /\ embed_calls = 1

\* C11: retrieve_context returns the chunk texts in the order of the hits:
\* the i-th returned chunk is the chunk_text of the i-th hit, nothing is
\* re-sorted, dropped or duplicated
C11_OrderPreserved ==
  qpc \in {"q_answer", "done"} =>
    /\ Len(context_chunks) = Len(results)
    /\ \A i \in 1..Len(results) : context_chunks[i] = results[i].chunk_text

\* two hits with different texts have been turned into the context
C11_Witness ==
  /\ qpc = "q_answer"
  /\ Len(results) = 2
  /\ results[1].chunk_text = "c2"
  /\ results[2].chunk_text = "c1"
  /\ Len(context_chunks) = 2

\* C12: the completion service is never called with an empty context: a
\* retrieval of zero chunks ends the request with 404 and generate_answer
\* is not invoked
C12_NoEmptyCompletion ==
  [][/\ (completion_calls' # completion_calls => context_chunks # <<>>)
     /\ (qpc = "q_answer" /\ context_chunks = <<>> =>
           /\ status' = 404
           /\ completion_calls' = completion_calls)]_vars

\* a search that succeeded with zero hits has ended the request
C12_Witness ==
  /\ qpc = "done"
  /\ search_calls = 1
  /\ results = <<>>
  /\ raised = "not_found"
  /\ completion_calls = 0

\* characters upload_pdf removes from an identifier before it is used
ControlChars == {"\n", "\r", "\t"}

\* index of the quote that closes a string literal whose body starts at i:
\* the first quote not preceded by an escaping backslash, 0 when there is
\* none
RECURSIVE LiteralClose(_, _)
LiteralClose(s, i) ==
  IF i > Len(s) THEN 0
  ELSE IF s[i] = "\\" THEN LiteralClose(s, i + 2)
  ELSE IF s[i] = "'" THEN i
  ELSE LiteralClose(s, i + 1)

\* the expression is the comparison of file_id with one string literal that
\* is closed by the last character and holds no raw control character
WellFormedFilter(e) ==
  LET n == Len(FilterPrefix) + 1
      lit == SubSeq(e, n + 1, Len(e))
  IN  /\ Len(e) > n
      /\ SubSeq(e, 1, n) = FilterPrefix \o <<"'">>
      /\ LiteralClose(lit, 1) = Len(lit)
      /\ \A k \in 1..Len(lit) : lit[k] \notin ControlChars

\* C13: an identifier with a quote, a backslash or a control character
\* never reaches collection.search in a filter expression that is not well
\* formed: the request fails before the search or the identifier is
\* sanitized
C13_SafeFilter ==
  search_expr # None => WellFormedFilter(search_expr)

\* C14: during a query an unreachable or disconnected vector store is
\* reported as 503 and zero retrieved chunks as 404, never a connection
\* failure as 500
C14_Categories ==
  /\ raised \in {"reconnect_failed", "no_connection"} => status = 503
  /\ raised = "not_found" => status = 404


\* C15: retrieve_context with a document id or a query that is empty after
\* trimming fails with a validation error before any collaborator is
\* contacted: no call of the embedding service, none of the vector store
C15_ValidatesFirst ==
  (Strip(file_id) = <<>> \/ Strip(query) = <<>>) =>
    /\ embed_calls = 0
    /\ probe_calls = 0
    /\ search_calls = 0
    /\ qpc \in {"q_answer", "done"} => raised = "value_error"

\* C16: no automatic retries: within one request every operation on the
\* embedding service, the completion service and the vector store is
\* attempted at most once, and a failure is propagated
C16_NoRetries ==
  /\ embed_calls <= 1
  /\ completion_calls <= 1
  /\ search_calls <= 1
  /\ query_calls <= 1

\* the rows of the collection stored under the identifier of upload p
StoredFor(p) == SelectSeq(store, LAMBDA r : r.file_id = FileIdOf(p))

\* C17: insert_chunks raises before persisting anything when the number of
\* chunks differs from the number of embeddings or an embedding's dimension
\* is not 1536: collection.insert is not called, the collection is unchanged
C17_RaisesBeforePersisting ==
  [][\A p \in Uploads :
       (/\ upc[p] = "u_insert"
        /\ upc'[p] # "u_insert"
        /\ \/ Len(u_chunks[p]) # Len(u_embeddings[p])
           \/ \E i \in 1..Len(u_embeddings[p]) :
                u_embeddings[p][i].dim # ExpectedDim)
       => /\ u_raised'[p] = "value_error"
          /\ insert_calls' = insert_calls
          /\ store' = store]_vars

\* one upload was refused for a missing vector and the other for a vector
\* of the wrong dimension
C17_Witness ==
  /\ upc[1] = "done"
  /\ u_raised[1] = "value_error"
  /\ Len(u_chunks[1]) = 2
  /\ Len(u_embeddings[1]) = 1
  /\ upc[2] = "done"
  /\ u_raised[2] = "value_error"
  /\ Len(u_chunks[2]) = Len(u_embeddings[2])
  /\ \E i \in 1..Len(u_embeddings[2]) : u_embeddings[2][i].dim # ExpectedDim

\* C18: two concurrent uploads with different identifiers do not mix: the
\* rows stored under each identifier are that upload's own chunks, in
\* order, each with its own embedding, in every interleaving
C18_NoCrossTalk ==
  \A p \in Uploads :
    /\ \/ Len(StoredFor(p)) = 0
       \/ /\ Len(StoredFor(p)) = Len(u_chunks[p])
          /\ \A i \in 1..Len(u_chunks[p]) :
               /\ StoredFor(p)[i].chunk_text = u_chunks[p][i].text
               /\ StoredFor(p)[i].embedding = u_embeddings[p][i]
               /\ StoredFor(p)[i].embedding.of = u_chunks[p][i].text
    /\ u_status[p] = 200 => Len(StoredFor(p)) > 0

\* both uploads have completed, the second inserted before the first, each
\* with two chunks
C18_Witness ==
  /\ \A p \in Uploads : upc[p] = "done" /\ u_status[p] = 200
  /\ Len(store) = 4
  /\ store[1].file_id = FileIdOf(2)
  /\ u_chunks[1][1].text # u_chunks[1][2].text
  /\ u_chunks[1] # u_chunks[2]

\* C19: calculate_cosine_similarity on vectors of different lengths raises
\* and returns no value computed from a truncated or padded vector
C19_MismatchRaises ==
  spc = "done" /\ Len(vec1) # Len(vec2) => cos.kind = "raise"

\* a call with a vector of one component and a vector of two has raised
C19_Witness ==
  /\ spc = "done"
  /\ Len(vec1) = 1
  /\ Len(vec2) = 2
  /\ vec1[1] # 0
  /\ cos.kind = "raise"

\* the number is between -1 and 1
InUnitRange(c) == c.sign = 0 \/ (c.e <= 0 /\ c.m <= Pow2(-c.e))

\* the number is 1
IsOne(c) == c.sign = 1 /\ c.e <= 0 /\ c.m = Pow2(-c.e)

\* C20: for vectors of equal dimension calculate_cosine_similarity lies in
\* [-1, 1], and for a nonzero vector and itself it is 1
C20_CosineBounds ==
  spc = "done" /\ Len(vec1) = Len(vec2) =>
    /\ cos.kind = "value"
    /\ InUnitRange(cos)
    /\ (vec1 = vec2 /\ Dot(vec1, vec1) # 0 => IsOne(cos))

\* 0-based positions in text[s:e] at which one of the six sentence endings
\* occurs, whichever it is
PatternHits(t, s, e) ==
  {k \in SliceIdx(s, Len(t))..(SliceIdx(e, Len(t)) - 2) :
     \E n \in 1..Len(Puncts) : SubSeq(t, k + 1, k + 2) = Puncts[n]}

\* C25: when start + chunk_size < len(text) and the window holds one of the
\* six sentence endings, end is p + 1 for the rightmost position p at which
\* any of the six occurs
C25_RightmostAny ==
  \A k \in DOMAIN spans :
    LET hits == PatternHits(text, spans[k].s, spans[k].s + chunk_size)
    IN  (spans[k].s + chunk_size < Len(text) /\ hits # {}) =>
          spans[k].e = Max(hits) + 1

\* C26: the cursor of chunk_text is never negative
C26_CursorNonNegative == start >= 0

\* C27: in the returned list every chunk after the first reaches strictly
\* beyond the end of the chunk before it, so that none lies wholly within
\* its predecessor, the last one included
C27_NewContent ==
  pc = "done" =>
    \A j \in Kept : \A k \in Kept :
      (j < k /\ \A m \in Kept : ~(j < m /\ m < k)) =>
        Max(SpanOf(k)) > Max(SpanOf(j))

\* C21 as stated: calculate_cosine_similarity returns exactly 0.0, without
\* dividing, whenever either argument has Euclidean norm zero
C21_ZeroNormGivesZero ==
  (spc = "done" /\ (Dot(vec1, vec1) = 0 \/ Dot(vec2, vec2) = 0)) =>
    cos = Zero /\ ~divided

\* C21 as amended: for two vectors of the same length,
\* calculate_cosine_similarity returns exactly 0.0, without dividing,
\* whenever either has Euclidean norm zero, also when both have
C21_ZeroNormEqualLength ==
  (/\ spc = "done"
   /\ Len(vec1) = Len(vec2)
   /\ (Dot(vec1, vec1) = 0 \/ Dot(vec2, vec2) = 0)) =>
    cos = Zero /\ ~divided

\* a zero vector has been compared with a vector that is not zero
C21_Witness ==
  /\ spc = "done"
  /\ vec1 = <<0, 0>>
  /\ vec2 = <<1, 2>>
  /\ cos = Zero
  /\ ~divided

\* C22: every similarity record of retrieve_context has cosine_similarity
\* in [-1, 1], and there is one record per returned chunk, in the same order
\* and with the same chunk_text
C22_SimilarityRecords ==
  (qpc = "q_answer" /\ show_similarity) =>
    /\ Len(similarity_info) = Len(context_chunks)
    /\ \A i \in 1..Len(similarity_info) :
         /\ similarity_info[i].chunk_text = context_chunks[i]
         /\ InUnitRange(similarity_info[i].cosine_similarity)

\* C23: in the upload flow an extraction that yields empty or
\* whitespace-only text is answered with 400 "no extractable text", for every
\* file type, and never with the answer given to an extraction failure
C23_BlankIsNoText ==
  \A p \in Uploads :
    u_extracted[p] = "blank" =>
      /\ u_status[p] = 400
      /\ u_raised[p] = "no_text"

\* C24: a chunk longer than 10000 characters is stored cut to 10000: after
\* a successful insert_chunks every stored chunk_text is at most 10000 long
\* and every chunk handed over is stored, and the caller's chunk list is
\* unchanged when insert_chunks raises
C24_TruncatedNotMutated ==
  [][\A p \in Uploads :
       (upc[p] = "u_insert" /\ upc'[p] # "u_insert") =>
         /\ \A i \in DOMAIN store' : store'[i].length <= MaxChunkTextLen
         /\ upc'[p] = "u_save" => Len(store') = Len(store) + Len(u_chunks[p])
         /\ upc'[p] = "done" => u_chunks'[p] = u_chunks[p]]_vars

\* the metadata rows written for upload p
MetadataFor(p) == {r \in files : r.file_id = FileIdOf(p)}

\* C28: the metadata row of an upload is written only once insert_chunks has
\* returned successfully for it; an upload that fails in extraction,
\* chunking, embedding or insertion has no row; the recorded chunks_count is
\* the number of chunks passed to insert_chunks
C28_MetadataAfterInsert ==
  [][\A p \in Uploads :
       /\ (MetadataFor(p) = {} /\ MetadataFor(p)' # {}) => upc[p] = "u_save"
       /\ u_raised'[p] # "none" => MetadataFor(p)' = {}
       /\ \A r \in MetadataFor(p)' :
            /\ r.chunks_count = Len(u_chunks'[p])
            /\ r.chunks_count = Len(StoredFor(p)')]_vars

\* one upload has stored two chunks and has its row; the other was refused by
\* insert_chunks and has none
C28_Witness ==
  /\ upc[1] = "done"
  /\ u_status[1] = 200
  /\ MetadataFor(1) = {[file_id |-> FileIdOf(1), chunks_count |-> 2,
                        status |-> "completed"]}
  /\ Len(StoredFor(1)) = 2
  /\ upc[2] = "done"
  /\ u_raised[2] = "value_error"
  /\ MetadataFor(2) = {}

====
